---- MODULE Spec2Model ----
(***************************************************************************)
(* A model of converttexttodate.py: conversion of text columns of an Arrow *)
(* table to date32 columns.                                                *)
(*                                                                         *)
(* Arrow arrays are sequences of nullable cells.  A cell is <<>> (null) or *)
(* <<v>> (the value v).  A string is a sequence of one-character strings,  *)
(* so that the regular expressions of REGEXES and the casts of digit       *)
(* strings to integers are computed character by character.                *)
(*                                                                         *)
(* Integer kernels (pa.compute.add, subtract, multiply, divide) work on    *)
(* int32/int8: add, subtract and multiply wrap around on overflow and      *)
(* divide truncates toward zero.  Months and days have at most two digits  *)
(* and stay inside int8.                                                   *)
(***************************************************************************)
EXTENDS Integers, Sequences, FiniteSets, TLC

VARIABLES
    ymd,        \* codec run: the parsed triple [y, m, d] under test
    cpc,        \* codec run: "parsed", "encoded", "validated", "truncated"
    encoded,    \* codec run: the date32 array encoded from ymd
    checked,    \* codec run: what _validate_date32s made of the arrays
    cunit,      \* codec run: the unit applied by the truncation
    trunc,      \* codec run: the truncated date32 array
    table,      \* render: the table being rewritten (sequence of columns)
    input,      \* render: the table render_arrow_v1 was called with
    params,     \* render: [colnames, format, unit, error_means_null]
    pc,         \* render: "loop", "done", "raised" (or "idle")
    ci,         \* render: position in params.colnames
    k,          \* render: the chunk of the current column being converted
    conv,       \* render: convert_array's position and arrays for chunk k
    chunksOut,  \* render: chunks converted so far for the current column
    result,     \* render: the ArrowRenderResult (table, errors)
    stored,     \* migration: the parameters migrate_params was first called with
    previous,   \* migration: the parameters the latest call was given
    migrated,   \* migration: what the latest call returned (or raised)
    calls,      \* migration: number of calls of migrate_params so far
    mpc         \* migration: "ready", "raised" (or "idle")

codecVars == <<ymd, cpc, encoded, checked, cunit, trunc>>

renderVars == <<table, input, params, pc, ci, k, conv, chunksOut, result>>

migrateVars == <<stored, previous, migrated, calls, mpc>>

vars == <<ymd, cpc, encoded, checked, cunit, trunc, table, input, params, pc, ci, k, conv, chunksOut, result,
          stored, previous, migrated, calls, mpc>>

-----------------------------------------------------------------------------
(* Nullable cells and arrays                                               *)

Null == <<>>

Some(v) == <<v>>

IsNull(c) == c = <<>>

Val(c) == c[1]

\* An array given position by position, as a sequence.
Array(f) == SubSeq(f, 1, Len(f))

Unit == {"day", "week", "month", "quarter", "year"}

_EPOCH_ORDINAL == -719469

\* The largest and the smallest int32.
MaxInt32 == 2147483647

MinInt32 == (-MaxInt32) - 1

\* The sum of the pair p modulo 2^32, computed without leaving the int32
\* range.
WrapSum[p \in Int \X Int] ==
    IF p[1] >= 0 /\ p[2] > MaxInt32 - p[1]
    THEN ((p[1] - MaxInt32) - 1) + ((p[2] - MaxInt32) - 1)
    ELSE IF p[1] < 0 /\ p[2] < MinInt32 - p[1]
    THEN ((p[1] + MaxInt32) + 1) + ((p[2] + MaxInt32) + 1)
    ELSE p[1] + p[2]

\* pa.compute.add on int32: wraps around on overflow.
Add32(a, b) == WrapSum[<<a, b>>]

\* Negation modulo 2^32.
WrapNeg[a \in Int] == IF a = MinInt32 THEN MinInt32 ELSE -a

\* pa.compute.subtract on int32: wraps around on overflow.
Sub32(a, b) == WrapSum[<<a, WrapNeg[b]>>]

\* p[1] * p[2] modulo 2^32 for p[2] >= 0, by doubling.
WrapProduct[p \in Int \X Nat] ==
    IF p[2] = 0 THEN 0
    ELSE IF p[2] % 2 = 1
    THEN WrapSum[<<p[1], WrapProduct[<<WrapSum[<<p[1], p[1]>>], p[2] \div 2>>]>>]
    ELSE WrapProduct[<<WrapSum[<<p[1], p[1]>>], p[2] \div 2>>]

\* pa.compute.multiply on int32: wraps around on overflow.  Every
\* multiplier in the program is a literal.
Mul32(a, b) == IF b >= 0 THEN WrapProduct[<<a, b>>] ELSE WrapNeg[WrapProduct[<<a, -b>>]]

\* The quotient of the pair p truncated toward zero, for p[2] > 0.
TruncQuotient[p \in Int \X Int] ==
    IF p[1] >= 0 \/ p[1] % p[2] = 0 THEN p[1] \div p[2] ELSE (p[1] \div p[2]) + 1

\* pa.compute.divide on integers: C++ division, truncating toward zero.
\* Every divisor in the program is a positive literal.
TruncDiv(a, b) == TruncQuotient[<<a, b>>]

-----------------------------------------------------------------------------
(* Calendar codec                                                          *)

\* _years_months_days_to_date32s at one position with non-null y, m, d.
years_months_days_to_date32(y0, m0, d) ==
    LET jan_or_feb == IF m0 < 3 THEN 1 ELSE 0
        y == Sub32(y0, jan_or_feb)
        m == m0 + (jan_or_feb * 12 + (-3))
        c == TruncDiv(y, 100)
        ya == Sub32(y, Mul32(c, 100))
        j1 == TruncDiv(Mul32(c, 146097), 4)
        j2 == Add32(j1, TruncDiv(Mul32(ya, 1461), 4))
        j3 == Add32(j2, TruncDiv(Add32(Mul32(m, 153), 2), 5))
        j4 == Add32(j3, d)
    IN  Add32(j4, _EPOCH_ORDINAL)

\* The kernels give a null wherever an operand is null.
years_months_days_to_date32s(y, m, d) ==
    Array([i \in 1..Len(y) |->
              IF IsNull(y[i]) \/ IsNull(m[i]) \/ IsNull(d[i]) THEN Null
              ELSE Some(years_months_days_to_date32(Val(y[i]), Val(m[i]), Val(d[i])))])

\* The first quotient of the decoder as the code computes it:
\* subtract(multiply(j, 4), i32(-1)), that is 4 * j + 1 (the comment above
\* the statement reads y = (4L * j - 1) / 146097).
CenturyQuotient(j) == TruncDiv(Sub32(Mul32(j, 4), -1), 146097)

\* _date32s_to_years_months_days at one non-null position.
date32_to_years_months_days(n) ==
    LET j0 == Sub32(n, _EPOCH_ORDINAL)
        y0 == CenturyQuotient(j0)
        j1 == Sub32(Sub32(Mul32(j0, 4), 1), Mul32(y0, 146097))
        d1 == TruncDiv(j1, 4)
        j2 == TruncDiv(Add32(Mul32(d1, 4), 3), 1461)
        d2 == Sub32(Add32(Mul32(d1, 4), 3), Mul32(j2, 1461))
        d3 == TruncDiv(Add32(d2, 4), 4)
        m1 == TruncDiv(Sub32(Mul32(d3, 5), 3), 153)
        d4 == Sub32(Sub32(Mul32(d3, 5), 3), Mul32(m1, 153))
        d5 == TruncDiv(Add32(d4, 5), 5)
        y1 == Add32(Mul32(y0, 100), j2)
        oct_nov_dec == IF m1 > 9 THEN 1 ELSE 0
        m2 == m1 + (oct_nov_dec * (-12) + 3)
        y2 == Add32(y1, oct_nov_dec)
    IN  [y |-> y2, m |-> m2, d |-> d5]

\* _date32s_to_years_months_days: an array of [y, m, d], null where the
\* date is null.
date32s_to_years_months_days(date32s) ==
    Array([i \in 1..Len(date32s) |->
              IF IsNull(date32s[i]) THEN Null
              ELSE Some(date32_to_years_months_days(Val(date32s[i])))])

-----------------------------------------------------------------------------
(* Unit truncation (convert_array, lines 297-345)                          *)

\* pa.compute.not_equal(years, 0).cast(pa.int8()): null for a null year,
\* 1 for a year other than 0, 0 for the year 0.
OneOrNull(years) ==
    Array([i \in 1..Len(years) |->
              IF IsNull(years[i]) THEN Null
              ELSE Some(IF Val(years[i]) # 0 THEN 1 ELSE 0)])

\* pa.array([1, 1, 1, 1, 4, 4, 4, 7, 7, 7, 10, 10, 10]), indexed from 0.
QuarterTable == <<1, 1, 1, 1, 4, 4, 4, 7, 7, 7, 10, 10, 10>>

\* QuarterTable.take(months)
QuarterMonth(months) ==
    Array([i \in 1..Len(months) |->
              IF IsNull(months[i]) THEN Null
              ELSE Some(QuarterTable[Val(months[i]) + 1])])

\* A week truncation without the correction for negative day-counts.
NegativeOffsetNone(n) == 0

\* (date32s < 0).cast(int32) * -6
NegativeOffset(n) == (IF n < 0 THEN 1 ELSE 0) * (-6)

\* Lines 331-343
TruncateWeek(date32s) ==
    Array([i \in 1..Len(date32s) |->
              IF IsNull(date32s[i]) THEN Null
              ELSE Some(Sub32(Mul32(TruncDiv(Add32(Add32(Val(date32s[i]), 3), NegativeOffset(Val(date32s[i]))), 7), 7), 3))])

TruncateUnit(unit, years, months, days, date32s) ==
    IF unit = "year" THEN
        years_months_days_to_date32s(years, OneOrNull(years), OneOrNull(years))
    ELSE IF unit = "quarter" THEN
        years_months_days_to_date32s(years, QuarterMonth(months), OneOrNull(years))
    ELSE IF unit = "month" THEN
        years_months_days_to_date32s(years, months, OneOrNull(years))
    ELSE IF unit = "week" THEN TruncateWeek(date32s)
    ELSE date32s

-----------------------------------------------------------------------------
(* REGEXES and the extraction of the named groups                          *)

Digit == {"0", "1", "2", "3", "4", "5", "6", "7", "8", "9"}

DigitValue(c) ==
    CASE c = "0" -> 0 [] c = "1" -> 1 [] c = "2" -> 2 [] c = "3" -> 3
      [] c = "4" -> 4 [] c = "5" -> 5 [] c = "6" -> 6 [] c = "7" -> 7
      [] c = "8" -> 8 [] c = "9" -> 9

\* A group (?P<name>...) of digits: \d{min} when more is FALSE and max = min,
\* \d\d? when max = min + 1, \d+ when more is TRUE.
Grp(name, min, max, more) ==
    [group |-> name, lit |-> "", min |-> min, max |-> max, more |-> more]

Lit(c) == [group |-> "", lit |-> c, min |-> 0, max |-> 0, more |-> FALSE]

Formats == {"YYYY-MM-DD", "YYYYMMDD", "M/D/YYYY", "D/M/YYYY", "M/D/YY", "D/M/YY"}

REGEXES ==
    [f \in Formats |->
        CASE f = "YYYY-MM-DD" ->
                <<Grp("yyyy", 1, 1, TRUE), Lit("-"), Grp("mm", 1, 2, FALSE),
                  Lit("-"), Grp("dd", 1, 2, FALSE)>>
          [] f = "YYYYMMDD" ->
                <<Grp("yyyy", 4, 4, FALSE), Grp("mm", 2, 2, FALSE),
                  Grp("dd", 2, 2, FALSE)>>
          [] f = "M/D/YYYY" ->
                <<Grp("mm", 1, 2, FALSE), Lit("/"), Grp("dd", 1, 2, FALSE),
                  Lit("/"), Grp("yyyy", 1, 1, TRUE)>>
          [] f = "D/M/YYYY" ->
                <<Grp("dd", 1, 2, FALSE), Lit("/"), Grp("mm", 1, 2, FALSE),
                  Lit("/"), Grp("yyyy", 1, 1, TRUE)>>
          [] f = "M/D/YY" ->
                <<Grp("mm", 1, 2, FALSE), Lit("/"), Grp("dd", 1, 2, FALSE),
                  Lit("/"), Grp("yy", 1, 2, FALSE)>>
          [] f = "D/M/YY" ->
                <<Grp("dd", 1, 2, FALSE), Lit("/"), Grp("mm", 1, 2, FALSE),
                  Lit("/"), Grp("yy", 1, 2, FALSE)>>]

\* Length of the longest run of digits of s that starts at position pos.
RECURSIVE DigitRun(_, _)
DigitRun(s, pos) ==
    IF pos <= Len(s) /\ s[pos] \in Digit THEN 1 + DigitRun(s, pos + 1) ELSE 0

\* Characters a group takes at pos, or -1 when it cannot match there.  A
\* fixed-width group takes exactly its width; a group of variable width is
\* followed in every pattern by a separator or by the end of the text, so
\* it must take the whole run of digits.
GroupTake(s, tok, pos) ==
    LET run == DigitRun(s, pos)
    IN  IF ~tok.more /\ tok.min = tok.max
        THEN (IF run >= tok.min THEN tok.min ELSE -1)
        ELSE IF run >= tok.min /\ (tok.more \/ run <= tok.max) THEN run
        ELSE -1

\* The pattern anchored at both ends (\A ... \z, line 374): the struct of
\* captured digit strings, or Null when the text does not match.
RECURSIVE MatchFrom(_, _, _, _, _)
MatchFrom(s, toks, t, pos, acc) ==
    IF t > Len(toks) THEN (IF pos = Len(s) + 1 THEN Some(acc) ELSE Null)
    ELSE IF toks[t].group = "" THEN
        IF pos <= Len(s) /\ s[pos] = toks[t].lit
        THEN MatchFrom(s, toks, t + 1, pos + 1, acc)
        ELSE Null
    ELSE LET n == GroupTake(s, toks[t], pos)
         IN  IF n < 0 THEN Null
             ELSE MatchFrom(s, toks, t + 1, pos + n,
                            (toks[t].group :> SubSeq(s, pos, pos + n - 1)) @@ acc)

ExtractRegex(s, pattern) == MatchFrom(s, pattern, 1, 1, <<>>)

\* "?P<yy>" in pattern (line 206)
HasYY(pattern) == \E t \in 1..Len(pattern) : pattern[t].group = "yy"

\* The digits after the leading zeros.
RECURSIVE SkipZeros(_)
SkipZeros(ds) == IF Len(ds) > 0 /\ ds[1] = "0" THEN SkipZeros(Tail(ds)) ELSE ds

\* a <= b for two strings of digits of one length.
RECURSIVE DigitsLeq(_, _)
DigitsLeq(a, b) ==
    IF Len(a) = 0 THEN TRUE
    ELSE IF a[1] # b[1] THEN DigitValue(a[1]) < DigitValue(b[1])
    ELSE DigitsLeq(Tail(a), Tail(b))

\* The digits of the largest int32.
MaxInt32Digits == <<"2", "1", "4", "7", "4", "8", "3", "6", "4", "7">>

\* Whether .cast(pa.int32()) parses the string of digits: the number fits
\* int32.  The cast raises pa.ArrowInvalid otherwise.
FitsInt32(ds) ==
    \/ Len(SkipZeros(ds)) < Len(MaxInt32Digits)
    \/ Len(SkipZeros(ds)) = Len(MaxInt32Digits) /\ DigitsLeq(SkipZeros(ds), MaxInt32Digits)

\* cast of a string of digits to an integer; leading zeros are skipped.
RECURSIVE DigitsToInt(_)
DigitsToInt(ds) ==
    IF Len(ds) = 0 THEN 0
    ELSE DigitsToInt(SubSeq(ds, 1, Len(ds) - 1)) * 10 + DigitValue(ds[Len(ds)])

-----------------------------------------------------------------------------
(* Array kernels and the two passes of convert_array                       *)

\* array.filter(mask): the positions whose mask is true; a null mask drops
\* the position, or with null_selection_behavior="emit_null" emits a null.
RECURSIVE Filter(_, _, _)
Filter(array, mask, emit_null) ==
    IF Len(array) = 0 THEN <<>>
    ELSE LET rest == Filter(Tail(array), Tail(mask), emit_null)
         IN  IF IsNull(mask[1]) THEN (IF emit_null THEN <<Null>> \o rest ELSE rest)
             ELSE IF Val(mask[1]) THEN <<array[1]>> \o rest
             ELSE rest

\* Every index taken as index 0.
TakeFirst(array, indices) ==
    Array([i \in 1..Len(indices) |-> IF IsNull(indices[i]) THEN Null ELSE array[1]])

\* array.take(indices), indices counted from 0; a null index gives a null.
Take(array, indices) ==
    Array([i \in 1..Len(indices) |->
              IF IsNull(indices[i]) THEN Null ELSE array[Val(indices[i]) + 1]])

\* np.cumsum(np_ok)[i]
RECURSIVE CumSum(_, _)
CumSum(np_ok, i) == IF i = 0 THEN 0 ELSE CumSum(np_ok, i - 1) + np_ok[i]

\* mask.true_count / mask.false_count: nulls are not counted.
TrueCount(mask) == Cardinality({i \in 1..Len(mask) : ~IsNull(mask[i]) /\ Val(mask[i])})

FalseCount(mask) == Cardinality({i \in 1..Len(mask) : ~IsNull(mask[i]) /\ ~Val(mask[i])})

\* pa.compute.invert: null stays null.
Invert(mask) ==
    Array([i \in 1..Len(mask) |-> IF IsNull(mask[i]) THEN Null ELSE Some(~Val(mask[i]))])

\* pa.compute.or_kleene(mask, null): true stays true, false and null are null.
OrKleeneNull(mask) ==
    Array([i \in 1..Len(mask) |->
              IF ~IsNull(mask[i]) /\ Val(mask[i]) THEN Some(TRUE) ELSE Null])

\* pa.compute.match_substring_regex(array, pattern)
MatchSubstringRegex(array, pattern) ==
    Array([i \in 1..Len(array) |->
              IF IsNull(array[i]) THEN Null
              ELSE Some(~IsNull(ExtractRegex(Val(array[i]), pattern)))])

\* np_index = np.cumsum(np_ok) - 1 (line 156)
NpIndex(np_ok, i) == CumSum(np_ok, i) - 1

\* _extract_regex_workaround_arrow_12670
extract_regex_workaround_arrow_12670(array, pattern) ==
    LET ok == MatchSubstringRegex(array, pattern)
        good == Filter(array, ok, FALSE)
        good_matches == Array([g \in 1..Len(good) |-> ExtractRegex(Val(good[g]), pattern)])
        ok_nonnull == Array([i \in 1..Len(array) |-> ~IsNull(ok[i]) /\ Val(ok[i])])
        np_ok == Array([i \in 1..Len(array) |-> IF ok_nonnull[i] THEN 1 ELSE 0])
        index_or_null == Array([i \in 1..Len(array) |->
                                   IF ok_nonnull[i] THEN Some(NpIndex(np_ok, i)) ELSE Null])
    IN  Take(good_matches, index_or_null)

\* _struct_string_field_with_nulls(structs, name).cast(int): the field of
\* every struct as an integer, null where the struct is null.
StructFieldInt(structs, name) ==
    Array([i \in 1..Len(structs) |->
              IF IsNull(structs[i]) THEN Null
              ELSE Some(DigitsToInt(Val(structs[i])[name]))])

\* The widening with the pivot one year early.
WidenYYAbove68(yy) ==
    Array([i \in 1..Len(yy) |->
              IF IsNull(yy[i]) THEN Null
              ELSE Some(Val(yy[i]) + ((IF Val(yy[i]) > 68 THEN 1 ELSE 0) * (-100) + 2000))])

\* Lines 207-215: yy + 2000, less 100 when yy > 69.
WidenYY(yy) ==
    Array([i \in 1..Len(yy) |->
              IF IsNull(yy[i]) THEN Null
              ELSE Some(Val(yy[i]) + ((IF Val(yy[i]) > 69 THEN 1 ELSE 0) * (-100) + 2000))])

FormatMismatchError(column, value, format) ==
    [id |-> "error.formatMismatch", column |-> column, value |-> value, format |-> format]

InvalidDateError(column, value) ==
    [id |-> "error.invalidDate", column |-> column, value |-> value]

\* pa.ArrowInvalid raised by a cast: not a RenderErrorException.
ArrowInvalid(value) == [id |-> "ArrowInvalid", value |-> value]

IsRenderError(error) == error.id \in {"error.formatMismatch", "error.invalidDate"}

\* The last of the selected strings instead of the first.
LastValue(strings, mask) == Filter(strings, mask, FALSE)[Len(Filter(strings, mask, FALSE))]

\* invalid_strings[0] of strings.filter(mask) (lines 185 and 195, 248 and
\* 254): the value the error reports, as a cell.
FirstValue(strings, mask) == Filter(strings, mask, FALSE)[1]

Raised(error) == [raised |-> TRUE, error |-> error]

\* Every position without a match counted, null strings included.
MismatchesOfNulls(strings, structs) ==
    Array([i \in 1..Len(strings) |-> Some(IsNull(structs[i]))])

\* mismatches (line 182)
Mismatches(strings, structs) ==
    Array([i \in 1..Len(strings) |-> Some(~IsNull(strings[i]) /\ IsNull(structs[i]))])

\* Lines 201-220: the structs with the mismatches made null, cast to the
\* arrays years, months, days; the cast of the years raises pa.ArrowInvalid
\* when a year does not fit int32.
ParsedArrays(structs0, mismatches, pattern) ==
    LET structs == IF TrueCount(mismatches) > 0
                   THEN Filter(structs0, OrKleeneNull(Invert(mismatches)), TRUE)
                   ELSE structs0
        field == IF HasYY(pattern) THEN "yy" ELSE "yyyy"
        unfit == {i \in 1..Len(structs) :
                     ~IsNull(structs[i]) /\ ~FitsInt32(Val(structs[i])[field])}
    IN  IF unfit # {}
        THEN Raised(ArrowInvalid(Val(structs[CHOOSE i \in unfit : \A j \in unfit : i <= j])[field]))
        ELSE [raised |-> FALSE,
              years |-> IF HasYY(pattern) THEN WidenYY(StructFieldInt(structs, "yy"))
                        ELSE StructFieldInt(structs, "yyyy"),
              months |-> StructFieldInt(structs, "mm"),
              days |-> StructFieldInt(structs, "dd")]

\* _parse_unvalidated_years_months_days: a raised error, or the arrays
\* years, months, days.
parse_unvalidated_years_months_days(column_name, strings, pattern, format, error_means_null) ==
    LET structs0 == extract_regex_workaround_arrow_12670(strings, pattern)
        mismatches == Mismatches(strings, structs0)
    IN  IF TrueCount(mismatches) > 0 /\ ~error_means_null
        THEN Raised(FormatMismatchError(column_name, FirstValue(strings, mismatches), format))
        ELSE ParsedArrays(structs0, mismatches, pattern)

\* valid (lines 237-244): null where the arrays are null, else whether the
\* parsed triple equals the decoded one.
ValidCell(year, month, day, check) ==
    IF IsNull(year) \/ IsNull(month) \/ IsNull(day) \/ IsNull(check)
    THEN Null
    ELSE Some(/\ Val(year) = Val(check).y
              /\ Val(month) = Val(check).m
              /\ Val(day) = Val(check).d)

\* Lines 234-244: the day-counts are decoded and compared with the parsed
\* arrays.
Valid(years, months, days, date32s) ==
    Array([i \in 1..Len(date32s) |->
              ValidCell(years[i], months[i], days[i],
                        date32s_to_years_months_days(date32s)[i])])

\* Lines 259-264: the arrays filtered by valid_or_null.
ValidatedArrays(valid, years, months, days, date32s) ==
    IF FalseCount(valid) > 0
    THEN [raised |-> FALSE,
          years |-> Filter(years, OrKleeneNull(valid), TRUE),
          months |-> Filter(months, OrKleeneNull(valid), TRUE),
          days |-> Filter(days, OrKleeneNull(valid), TRUE),
          date32s |-> Filter(date32s, OrKleeneNull(valid), TRUE)]
    ELSE [raised |-> FALSE, years |-> years, months |-> months, days |-> days,
          date32s |-> date32s]

\* Lines 246-264: the first invalid date raises error.invalidDate unless
\* error_means_null; otherwise the arrays are filtered.
RaiseOrFilter(name, strings, valid, years, months, days, date32s, error_means_null) ==
    IF FalseCount(valid) > 0 /\ ~error_means_null
    THEN Raised(InvalidDateError(name, FirstValue(strings, Invert(valid))))
    ELSE ValidatedArrays(valid, years, months, days, date32s)

\* _validate_date32s: a raised error, or the four arrays with the invalid
\* positions made null.
validate_date32s(name, strings, years, months, days, date32s, error_means_null) ==
    RaiseOrFilter(name, strings, Valid(years, months, days, date32s),
                  years, months, days, date32s, error_means_null)

-----------------------------------------------------------------------------
(* Texts fed to the conversion: for every format two texts of real dates   *)
(* (on both sides of 1970-01-01), two texts that match the pattern and are *)
(* no dates, and two texts that do not match the pattern.                  *)

Texts ==
    [f \in Formats |->
        CASE f = "YYYY-MM-DD" ->
            <<<<"2", "0", "2", "1", "-", "0", "4", "-", "2", "8">>,
              <<"1", "9", "6", "9", "-", "7", "-", "4">>,
              <<"2", "0", "2", "1", "-", "0", "2", "-", "3", "0">>,
              <<"2", "0", "2", "1", "-", "1", "3", "-", "0", "1">>,
              <<"x", "2", "0", "2", "1", "-", "0", "4", "-", "2", "8">>,
              <<"2", "0", "2", "1", "/", "0", "4", "/", "2", "8">>>>
          [] f = "YYYYMMDD" ->
            <<<<"2", "0", "2", "1", "0", "4", "2", "8">>,
              <<"1", "9", "6", "9", "0", "7", "0", "4">>,
              <<"2", "0", "2", "1", "0", "2", "3", "0">>,
              <<"2", "0", "2", "1", "1", "3", "0", "1">>,
              <<"2", "0", "2", "1", "-", "0", "4", "-", "2", "8">>,
              <<"2", "0", "2", "1", "0", "4">>>>
          [] f = "M/D/YYYY" ->
            <<<<"4", "/", "2", "8", "/", "2", "0", "2", "1">>,
              <<"7", "/", "4", "/", "1", "9", "6", "9">>,
              <<"2", "/", "3", "0", "/", "2", "0", "2", "1">>,
              <<"1", "3", "/", "1", "/", "2", "0", "2", "1">>,
              <<"4", "/", "2", "8", "/", "2", "0", "2", "1", "x">>,
              <<"4", "/", "2", "8">>>>
          [] f = "D/M/YYYY" ->
            <<<<"2", "8", "/", "4", "/", "2", "0", "2", "1">>,
              <<"4", "/", "7", "/", "1", "9", "6", "9">>,
              <<"4", "/", "2", "8", "/", "2", "0", "2", "1">>,
              <<"3", "1", "/", "6", "/", "2", "0", "2", "1">>,
              <<"2", "0", "2", "1", "-", "0", "4", "-", "2", "8">>,
              <<"2", "8", "/", "4">>>>
          [] f = "M/D/YY" ->
            <<<<"4", "/", "2", "8", "/", "2", "1">>,
              <<"7", "/", "4", "/", "7", "0">>,
              <<"2", "/", "3", "0", "/", "2", "1">>,
              <<"1", "3", "/", "1", "/", "2", "1">>,
              <<"4", "/", "2", "8", "/", "2", "0", "2", "1">>,
              <<"4", "/", "2", "8">>>>
          [] f = "D/M/YY" ->
            <<<<"2", "8", "/", "4", "/", "2", "1">>,
              <<"4", "/", "7", "/", "7", "0">>,
              <<"3", "0", "/", "2", "/", "2", "1">>,
              <<"3", "1", "/", "6", "/", "2", "1">>,
              <<"2", "8", "/", "4", "/", "0", "2", "1">>,
              <<"2", "8", "/", "4">>>>]

-----------------------------------------------------------------------------
(* Tables, columns and chunks                                              *)
(*                                                                         *)
(* A column is [name, type, unit, chunks]; type is "utf8", "dictionary" or *)
(* "date32" and unit is the field's unit metadata ("" on a text column).   *)
(* A chunk is [strings], [dictionary, indices] or [dates].                 *)

StringChunk(cells) == [strings |-> cells]

DictionaryChunk(dictionary, indices) == [dictionary |-> dictionary, indices |-> indices]

DateChunk(cells) == [dates |-> cells]

\* pa.field(colname, pa.date32(), metadata={"unit": unit}) with its data
DateColumn(name, unit, chunks) ==
    [name |-> name, type |-> "date32", unit |-> unit, chunks |-> chunks]

TextColumn(name, type, chunks) ==
    [name |-> name, type |-> type, unit |-> "", chunks |-> chunks]

\* pa.types.is_dictionary(array.type)
IsDictionary(array) == "dictionary" \in DOMAIN array

\* The string array convert_array parses: the dictionary of a dictionary
\* array (the recursive call of lines 278-285), else the array itself.
ParsedStrings(array) == IF IsDictionary(array) THEN array.dictionary ELSE array.strings

\* Line 286: the converted dictionary taken by the indices.
TakeIndices(array, dates) == IF IsDictionary(array) THEN Take(dates, array.indices) ELSE dates

\* convert_array as one function: a raised error or the dates.
convert_array(name, array, unit, pattern, format, error_means_null) ==
    LET strings == ParsedStrings(array)
        parsed == parse_unvalidated_years_months_days(name, strings, pattern, format, error_means_null)
    IN  IF parsed.raised THEN parsed
        ELSE LET date32s == years_months_days_to_date32s(parsed.years, parsed.months, parsed.days)
                 v == validate_date32s(name, strings, parsed.years, parsed.months, parsed.days, date32s, error_means_null)
             IN  IF v.raised THEN v
                 ELSE [raised |-> FALSE,
                       dates |-> TakeIndices(array, TruncateUnit(unit, v.years, v.months, v.days, v.date32s))]

\* convert_chunked_array as one function: the error of the first chunk that
\* raises, else the converted chunks.
RECURSIVE convert_chunked_array(_, _, _, _, _, _)
convert_chunked_array(name, chunks, unit, pattern, format, error_means_null) ==
    IF Len(chunks) = 0 THEN [raised |-> FALSE, chunks |-> <<>>]
    ELSE LET first == convert_array(name, chunks[1], unit, pattern, format, error_means_null)
         IN  IF first.raised THEN first
             ELSE LET rest == convert_chunked_array(name, Tail(chunks), unit, pattern, format, error_means_null)
                  IN  IF rest.raised THEN rest
                      ELSE [raised |-> FALSE, chunks |-> <<DateChunk(first.dates)>> \o rest.chunks]

\* table.schema.get_field_index(colname), counted from 1; the runs keep
\* colnames within the table's names, which are distinct.
get_field_index(tbl, colname) == CHOOSE i \in 1..Len(tbl) : tbl[i].name = colname

\* The data of column put in every column of the table.
SetEveryColumn(tbl, i, column) ==
    [j \in 1..Len(tbl) |-> [column EXCEPT !.name = tbl[j].name]]

\* table.set_column(i, field, column)
set_column(tbl, i, column) == [tbl EXCEPT ![i] = column]

\* The converted chunk put before the chunks converted so far.
PrependChunk(chunks, dates) == <<DateChunk(dates)>> \o chunks

\* The list comprehension of convert_chunked_array (lines 357-367): the
\* converted chunks in the order of the input chunks.
AppendChunk(chunks, dates) == Append(chunks, DateChunk(dates))

\* ArrowRenderResult(table, errors)
ArrowRenderResult(tbl, errors) == [table |-> tbl, errors |-> errors]

\* render_arrow_v1 left by an exception instead of a return.
Uncaught(exception) == [exception |-> exception]

NoResult == [table |-> <<>>, errors |-> <<"pending">>]

NoArrays == [stage |-> "parse", years |-> <<>>, months |-> <<>>, days |-> <<>>, date32s |-> <<>>]

-----------------------------------------------------------------------------
(* render_arrow_v1, column by column, chunk by chunk, pass by pass         *)

Pattern == REGEXES[params.format]

Looping == pc = "loop" /\ ci <= Len(params.colnames)

ColName == params.colnames[ci]

CurrentColumn == table[get_field_index(table, ColName)]

Converting == Looping /\ CurrentColumn.type # "date32" /\ k <= Len(CurrentColumn.chunks)

CurrentStrings == ParsedStrings(CurrentColumn.chunks[k])

ParsedChunk ==
    parse_unvalidated_years_months_days(ColName, CurrentStrings, Pattern, params.format, params.error_means_null)

ValidatedChunk ==
    validate_date32s(ColName, CurrentStrings, conv.years, conv.months, conv.days,
                     conv.date32s, params.error_means_null)

\* Lines 379-380: the column is already a date column.
RenderSkipDate ==
    /\ Looping
    /\ CurrentColumn.type = "date32"
    /\ ci' = ci + 1
    /\ UNCHANGED <<table, input, params, pc, k, conv, chunksOut, result>>
    /\ UNCHANGED <<codecVars, migrateVars>>

\* Lines 395-396: a RenderErrorException raised in convert_array ends the
\* render with an empty table and the error.
ReturnError(error) ==
    /\ result' = ArrowRenderResult(<<>>, <<error>>)
    /\ pc' = "done"
    /\ UNCHANGED <<table, input, params, ci, k, conv, chunksOut>>
    /\ UNCHANGED <<codecVars, migrateVars>>

\* An exception that is no RenderErrorException leaves render_arrow_v1.
Propagate(exception) ==
    /\ result' = Uncaught(exception)
    /\ pc' = "raised"
    /\ UNCHANGED <<table, input, params, ci, k, conv, chunksOut>>
    /\ UNCHANGED <<codecVars, migrateVars>>

\* Lines 288-290: the chunk parses (mismatches made null when
\* error_means_null).
ParseChunk ==
    /\ Converting
    /\ conv.stage = "parse"
    /\ \E parsed \in {ParsedChunk} :
           /\ ~parsed.raised
           /\ conv' = [stage |-> "encode", years |-> parsed.years,
                       months |-> parsed.months, days |-> parsed.days,
                       date32s |-> <<>>]
    /\ UNCHANGED <<table, input, params, pc, ci, k, chunksOut, result>>
    /\ UNCHANGED <<codecVars, migrateVars>>

\* Lines 184-199: a mismatch raises error.formatMismatch, which
\* render_arrow_v1 returns; lines 207 and 217: a cast raises
\* pa.ArrowInvalid, which no except clause catches.
ParseChunkRaise ==
    /\ Converting
    /\ conv.stage = "parse"
    /\ \E parsed \in {ParsedChunk} :
           /\ parsed.raised
           /\ IF IsRenderError(parsed.error)
              THEN ReturnError(parsed.error)
              ELSE Propagate(parsed.error)

\* Line 291: the parsed arrays encode to day-counts.
EncodeChunk ==
    /\ Converting
    /\ conv.stage = "encode"
    /\ conv' = [conv EXCEPT !.stage = "validate",
                            !.date32s = years_months_days_to_date32s(conv.years, conv.months, conv.days)]
    /\ UNCHANGED <<table, input, params, pc, ci, k, chunksOut, result>>
    /\ UNCHANGED <<codecVars, migrateVars>>

\* Lines 293-295: the chunk validates (invalid dates made null when
\* error_means_null).
ValidateChunk ==
    /\ Converting
    /\ conv.stage = "validate"
    /\ \E validated \in {ValidatedChunk} :
           /\ ~validated.raised
           /\ conv' = [stage |-> "truncate", years |-> validated.years,
                       months |-> validated.months, days |-> validated.days,
                       date32s |-> validated.date32s]
    /\ UNCHANGED <<table, input, params, pc, ci, k, chunksOut, result>>
    /\ UNCHANGED <<codecVars, migrateVars>>

\* Lines 246-257: an invalid date raises error.invalidDate.
ValidateChunkRaise ==
    /\ Converting
    /\ conv.stage = "validate"
    /\ \E validated \in {ValidatedChunk} :
           /\ validated.raised
           /\ ReturnError(validated.error)

\* Lines 297-345 and 286: the chunk is truncated to the unit (and taken by
\* the indices of a dictionary array); the list comprehension of
\* convert_chunked_array moves to the next chunk.
TruncateChunk ==
    /\ Converting
    /\ conv.stage = "truncate"
    /\ chunksOut' = AppendChunk(chunksOut,
                                TakeIndices(CurrentColumn.chunks[k],
                                            TruncateUnit(params.unit, conv.years, conv.months, conv.days, conv.date32s)))
    /\ k' = k + 1
    /\ conv' = NoArrays
    /\ UNCHANGED <<table, input, params, pc, ci, result>>
    /\ UNCHANGED <<codecVars, migrateVars>>

\* pa.chunked_array(chunks, pa.date32()) and table.set_column (lines 368,
\* 383-394).
SetColumn ==
    /\ Looping
    /\ CurrentColumn.type # "date32"
    /\ k > Len(CurrentColumn.chunks)
    /\ table' = set_column(table, get_field_index(table, ColName),
                           DateColumn(ColName, params.unit, chunksOut))
    /\ ci' = ci + 1
    /\ k' = 1
    /\ chunksOut' = <<>>
    /\ UNCHANGED <<input, params, pc, conv, result>>
    /\ UNCHANGED <<codecVars, migrateVars>>

\* Line 398
RenderReturn ==
    /\ pc = "loop"
    /\ ci > Len(params.colnames)
    /\ result' = ArrowRenderResult(table, <<>>)
    /\ pc' = "done"
    /\ UNCHANGED <<table, input, params, ci, k, conv, chunksOut>>
    /\ UNCHANGED <<codecVars, migrateVars>>

Next ==
    \/ RenderSkipDate
    \/ ParseChunk
    \/ ParseChunkRaise
    \/ EncodeChunk
    \/ ValidateChunk
    \/ ValidateChunkRaise
    \/ TruncateChunk
    \/ SetColumn
    \/ RenderReturn

-----------------------------------------------------------------------------
(* Inputs of the render runs                                               *)

\* Longest column of a one-column run, most chunks it is split into, and
\* most entries of a dictionary.
MaxLen == 2

MaxChunks == 2

MaxDict == 2

SeqsUpTo(S, n) == UNION {[1..m -> S] : m \in 0..n}

TextCells(f) == {Null} \cup {Some(Texts[f][i]) : i \in 1..Len(Texts[f])}

\* The chunks of flat cut at the positions cuts (non-decreasing, one fewer
\* than the chunks); equal cuts give empty chunks.
Split(flat, cuts) ==
    [c \in 1..(Len(cuts) + 1) |->
        SubSeq(flat,
               (IF c = 1 THEN 0 ELSE cuts[c - 1]) + 1,
               IF c = Len(cuts) + 1 THEN Len(flat) ELSE cuts[c])]

Cuts(n, nchunks) ==
    {cuts \in [1..(nchunks - 1) -> 0..n] :
        \A c \in 1..(nchunks - 2) : cuts[c] <= cuts[c + 1]}

\* Every chunking of every string column of at most MaxLen cells.
StringColumns(f) ==
    {TextColumn("A", "utf8", <<>>)} \cup
    UNION {UNION {{TextColumn("A", "utf8",
                              [c \in 1..nchunks |-> StringChunk(Split(flat, cuts)[c])]) :
                      cuts \in Cuts(Len(flat), nchunks)} :
                  nchunks \in 1..MaxChunks} :
           flat \in SeqsUpTo(TextCells(f), MaxLen)}

\* Dictionaries: distinct texts in any order.
Dictionaries(f) ==
    {d \in SeqsUpTo({Some(Texts[f][i]) : i \in 1..Len(Texts[f])}, MaxDict) :
        \A i, j \in 1..Len(d) : i # j => d[i] # d[j]}

IndexCells(d) == {Null} \cup {Some(i - 1) : i \in 1..Len(d)}

\* Every one-chunk dictionary column of at most MaxLen cells.
DictionaryColumns(f) ==
    UNION {{TextColumn("A", "dictionary", <<DictionaryChunk(d, indices)>>) :
               indices \in SeqsUpTo(IndexCells(d), MaxLen)} :
           d \in Dictionaries(f)}

\* Date columns of at most MaxLen cells, tagged with a unit of their own.
DateColumns ==
    {DateColumn("A", u, <<DateChunk(cells)>>) :
        u \in {"day", "week"},
        cells \in SeqsUpTo({Null, Some(18743), Some(-181)}, MaxLen)}

ParamsFor(colnames) ==
    [colnames : {colnames}, format : Formats, unit : Unit, error_means_null : BOOLEAN]

IdleMigrate ==
    /\ stored = <<>>
    /\ previous = <<>>
    /\ migrated = <<>>
    /\ calls = 0
    /\ mpc = "idle"

IdleCodec ==
    /\ ymd = [y |-> 0, m |-> 0, d |-> 0]
    /\ cpc = "idle"
    /\ encoded = <<>>
    /\ checked = [raised |-> FALSE, years |-> <<>>, months |-> <<>>, days |-> <<>>, date32s |-> <<>>]
    /\ cunit = "day"
    /\ trunc = <<>>

IdleRender ==
    /\ table = <<>>
    /\ input = <<>>
    /\ params = [colnames |-> <<>>, format |-> "YYYY-MM-DD", unit |-> "day", error_means_null |-> FALSE]
    /\ pc = "idle"
    /\ ci = 1
    /\ k = 1
    /\ conv = NoArrays
    /\ chunksOut = <<>>
    /\ result = NoResult

InitRun ==
    /\ table = input
    /\ pc = "loop"
    /\ ci = 1
    /\ k = 1
    /\ conv = NoArrays
    /\ chunksOut = <<>>
    /\ result = NoResult
    /\ IdleCodec
    /\ IdleMigrate

\* render_arrow_v1 called on a table of one column named in colnames.
InitColumn ==
    /\ params \in ParamsFor(<<"A">>)
    /\ \/ \E col \in StringColumns(params.format) : input = <<col>>
       \/ \E col \in DictionaryColumns(params.format) : input = <<col>>
       \/ \E col \in DateColumns : input = <<col>>
    /\ InitRun

SpecColumn == InitColumn /\ [][Next]_vars

-----------------------------------------------------------------------------
(* Inputs of the table runs: tables of one or two columns                  *)

\* Most rows of a table.
TableRows == 1

\* A real date, a text that is no date and a text that does not match.
TableCells(f) == {Null, Some(Texts[f][1]), Some(Texts[f][3]), Some(Texts[f][5])}

TableDictionaries(f) ==
    {<<Some(Texts[f][1])>>,
     <<Some(Texts[f][1]), Some(Texts[f][3])>>,
     <<Some(Texts[f][5]), Some(Texts[f][1])>>}

\* The columns of n rows a table may hold under a name.
TableColumns(name, f, n) ==
    {TextColumn(name, "utf8", <<StringChunk(cells)>>) : cells \in [1..n -> TableCells(f)]}
    \cup UNION {{TextColumn(name, "dictionary", <<DictionaryChunk(d, indices)>>) :
                    indices \in [1..n -> IndexCells(d)]} :
                d \in TableDictionaries(f)}
    \cup {DateColumn(name, u, <<DateChunk(cells)>>) :
             u \in {"day", "week"}, cells \in [1..n -> {Null, Some(18743)}]}

Tables(f) ==
    UNION {{<<a>> : a \in TableColumns("A", f, n)}
           \cup {<<a, b>> : a \in TableColumns("A", f, n), b \in TableColumns("B", f, n)} :
           n \in 0..TableRows}

\* colnames: distinct names in any order.
ColNames ==
    {names \in SeqsUpTo({"A", "B"}, 2) :
        \A i, j \in 1..Len(names) : i # j => names[i] # names[j]}

\* render_arrow_v1 called on a table with colnames among its columns.
Init ==
    /\ params \in [colnames : ColNames, format : Formats, unit : Unit, error_means_null : BOOLEAN]
    /\ input \in Tables(params.format)
    /\ \A n \in 1..Len(params.colnames) :
           \E i \in 1..Len(input) : input[i].name = params.colnames[n]
    /\ InitRun

Spec == Init /\ [][Next]_vars

-----------------------------------------------------------------------------
(* Inputs of the overflow runs: one-chunk columns with years of many       *)
(* digits, in the formats whose year is \d+                                *)

OverflowFormats == {"YYYY-MM-DD", "M/D/YYYY", "D/M/YYYY"}

\* Years: 10000 (five digits, inside int32 arithmetic), 1470000 (the first
\* century c with 146097 * c beyond int32), the largest int32, the smallest
\* number beyond int32, and a number of eleven digits.
OverflowYears ==
    {<<"1", "0", "0", "0", "0">>,
     <<"1", "4", "7", "0", "0", "0", "0">>,
     <<"2", "1", "4", "7", "4", "8", "3", "6", "4", "7">>,
     <<"2", "1", "4", "7", "4", "8", "3", "6", "4", "8">>,
     <<"9", "9", "9", "9", "9", "9", "9", "9", "9", "9", "9">>}

\* The text of a date in the format, from the digits of its parts.
DateText(f, year, month, day) ==
    CASE f = "YYYY-MM-DD" -> year \o <<"-">> \o month \o <<"-">> \o day
      [] f = "YYYYMMDD" -> year \o month \o day
      [] f \in {"M/D/YYYY", "M/D/YY"} -> month \o <<"/">> \o day \o <<"/">> \o year
      [] f \in {"D/M/YYYY", "D/M/YY"} -> day \o <<"/">> \o month \o <<"/">> \o year

\* The text of 15 June of the year in the format.
WithYear(f, year) == DateText(f, year, <<"6">>, <<"1", "5">>)

OverflowCells(f) ==
    {Null, Some(Texts[f][1]), Some(Texts[f][3])} \cup {Some(WithYear(f, y)) : y \in OverflowYears}

OverflowColumns(f) ==
    {TextColumn("A", "utf8", <<StringChunk(cells)>>) : cells \in SeqsUpTo(OverflowCells(f), MaxLen)}

InitOverflow ==
    /\ params \in [colnames : {<<"A">>}, format : OverflowFormats, unit : Unit, error_means_null : BOOLEAN]
    /\ \/ \E col \in OverflowColumns(params.format) : input = <<col>>
       \/ \E col \in DateColumns : input = <<col>>
    /\ InitRun

SpecOverflow == InitOverflow /\ [][Next]_vars

\* Runs on two-digit years: render_arrow_v1 on a column of one value, 15
\* June or 29 February of every year text of one or two digits (formats
\* with yy) or of a year written in two or four digits (formats with
\* yyyy), and on a column of the two years at the pivot.
DigitChar(n) == CHOOSE c \in Digit : DigitValue(c) = n

TwoDigitYears == {<<DigitChar(n \div 10), DigitChar(n % 10)>> : n \in 0..99}

OneDigitYears == {<<DigitChar(n)>> : n \in 0..9}

WrittenYears ==
    {<<"0", "0", "6", "9">>, <<"0", "0", "7", "0">>, <<"1", "9", "7", "0">>,
     <<"2", "0", "6", "9">>, <<"2", "0", "0", "0">>, <<"1", "9", "0", "0">>}

PivotYears(f) ==
    IF HasYY(REGEXES[f]) THEN TwoDigitYears \cup OneDigitYears
    ELSE IF f = "YYYYMMDD" THEN WrittenYears
    ELSE WrittenYears \cup {<<"6", "9">>, <<"7", "0">>}

PivotCells(f) ==
    {Some(Texts[f][5])}
        \cup {Some(WithYear(f, y)) : y \in PivotYears(f)}
        \cup {Some(DateText(f, y, <<"0", "2">>, <<"2", "9">>)) : y \in PivotYears(f)}

AtPivot(f) ==
    IF HasYY(REGEXES[f])
    THEN <<Some(WithYear(f, <<"6", "9">>)), Some(WithYear(f, <<"7", "0">>))>>
    ELSE <<Some(WithYear(f, <<"0", "0", "6", "9">>)), Some(WithYear(f, <<"0", "0", "7", "0">>))>>

PivotColumns(f) ==
    {TextColumn("A", "utf8", <<StringChunk(<<cell>>)>>) : cell \in PivotCells(f)}
        \cup {TextColumn("A", "utf8", <<StringChunk(AtPivot(f))>>)}

InitPivot ==
    /\ params \in ParamsFor(<<"A">>)
    /\ \/ \E col \in PivotColumns(params.format) : input = <<col>>
       \/ \E col \in DateColumns : input = <<col>>
    /\ InitRun

SpecPivot == InitPivot /\ [][Next]_vars

-----------------------------------------------------------------------------
(* The codec run: convert_array from line 291 on a one-position array      *)
(* whose parsed years, months and days are ymd, error_means_null set       *)

\* Years fed to the codec: year 0, the first years, century years,
\* multiples of 400, years on both sides of the epoch, the last year.
YearSamples ==
    {0, 1, 4, 100, 400, 1600, 1900, 1968, 1969, 1970, 1971, 1999, 2000,
     2001, 2020, 2021, 2100, 2400, 9999}

\* Largest month and day fed to the codec (the patterns admit 0..99).
MaxMonth == 14

MaxDay == 33

InitCodec ==
    /\ ymd \in [y : YearSamples, m : 0..MaxMonth, d : 0..MaxDay]
    /\ cpc = "parsed"
    /\ encoded = <<>>
    /\ checked = [raised |-> FALSE, years |-> <<>>, months |-> <<>>, days |-> <<>>, date32s |-> <<>>]
    /\ cunit = "day"
    /\ trunc = <<>>
    /\ IdleRender
    /\ IdleMigrate

\* convert_array line 291
CodecEncode ==
    /\ cpc = "parsed"
    /\ encoded' = years_months_days_to_date32s(<<Some(ymd.y)>>, <<Some(ymd.m)>>, <<Some(ymd.d)>>)
    /\ cpc' = "encoded"
    /\ UNCHANGED <<ymd, checked, cunit, trunc>>
    /\ UNCHANGED <<renderVars, migrateVars>>

\* convert_array lines 293-295
CodecValidate ==
    /\ cpc = "encoded"
    /\ checked' = validate_date32s("A", <<Null>>, <<Some(ymd.y)>>, <<Some(ymd.m)>>, <<Some(ymd.d)>>, encoded, TRUE)
    /\ cpc' = "validated"
    /\ UNCHANGED <<ymd, encoded, cunit, trunc>>
    /\ UNCHANGED <<renderVars, migrateVars>>

\* convert_array lines 297-345
CodecTruncate(unit) ==
    /\ cpc = "validated"
    /\ cunit' = unit
    /\ trunc' = TruncateUnit(unit, checked.years, checked.months, checked.days, checked.date32s)
    /\ cpc' = "truncated"
    /\ UNCHANGED <<ymd, encoded, checked>>
    /\ UNCHANGED <<renderVars, migrateVars>>

NextCodec ==
    \/ CodecEncode
    \/ CodecValidate
    \/ \E unit \in Unit : CodecTruncate(unit)

SpecCodec == InitCodec /\ [][NextCodec]_vars

-----------------------------------------------------------------------------
\* migrate_params.  A parameter set is a function from its keys to their
\* values.

\* dict(**params, key=...) with a key that params already holds raises
\* TypeError (multiple values for the keyword argument).
TypeError(key) == [exception |-> "TypeError", key |-> key]

\* _migrate_params_v0_to_v1: dict(**params, search_in_text=False).  Its
\* only caller, migrate_params, calls it on parameters without
\* 'search_in_text'.
migrate_params_v0_to_v1(p) ==
    IF "search_in_text" \in DOMAIN p
    THEN TypeError("search_in_text")
    ELSE [key \in DOMAIN p \cup {"search_in_text"} |->
             IF key = "search_in_text" THEN FALSE ELSE p[key]]

\* The migration to v2 that only adds the format.
AddFormatOnly(p) ==
    [key \in DOMAIN p \cup {"format"} |->
        IF key = "format" THEN "YYYY-MM-DD" ELSE p[key]]

\* _migrate_params_v1_to_v2: the four keys of v2, 'search_in_text' (and
\* every other key) dropped.
migrate_params_v1_to_v2(p) ==
    [colnames |-> p["colnames"],
     format |-> "YYYY-MM-DD",
     error_means_null |-> p["error_means_null"],
     unit |-> p["unit"]]

\* Lines 402-403: the parameters after the first if.
MigratedToV1(p) ==
    IF "format" \notin DOMAIN p /\ "search_in_text" \notin DOMAIN p
    THEN migrate_params_v0_to_v1(p)
    ELSE p

\* Lines 404-405: the parameters after the second if.
MigratedToV2(p) ==
    IF "format" \notin DOMAIN p THEN migrate_params_v1_to_v2(p) ELSE p

migrate_params(p) == MigratedToV2(MigratedToV1(p))

\* The keys _migrate_params_v1_to_v2 reads, in the order it reads them; a
\* key that is missing raises KeyError.
ReadKeys == <<"colnames", "error_means_null", "unit">>

MissingKeys(p) == {i \in 1..Len(ReadKeys) : ReadKeys[i] \notin DOMAIN p}

KeyError(key) == [exception |-> "KeyError", key |-> key]

MigrateRaises(p) == "format" \notin DOMAIN p /\ MissingKeys(p) # {}

\* Bound on the number of calls in a run.
MaxCalls == 2

\* One call of migrate_params on the parameters the last call returned.
MigrateParams ==
    /\ mpc = "ready"
    /\ calls < MaxCalls
    /\ ~MigrateRaises(migrated)
    /\ previous' = migrated
    /\ migrated' = migrate_params(migrated)
    /\ calls' = calls + 1
    /\ UNCHANGED <<stored, mpc>>
    /\ UNCHANGED <<codecVars, renderVars>>

\* Lines 416-420: a key that _migrate_params_v1_to_v2 reads is missing.
MigrateParamsRaise ==
    /\ mpc = "ready"
    /\ calls < MaxCalls
    /\ MigrateRaises(migrated)
    /\ previous' = migrated
    /\ migrated' = KeyError(ReadKeys[CHOOSE i \in MissingKeys(migrated) :
                                         \A j \in MissingKeys(migrated) : i <= j])
    /\ calls' = calls + 1
    /\ mpc' = "raised"
    /\ UNCHANGED stored
    /\ UNCHANGED <<codecVars, renderVars>>

\* Stored parameters: every subset of the keys of v0, v1 and v2, with
\* values of each key's type.
ParamKeys == {"colnames", "format", "error_means_null", "unit", "search_in_text"}

FullParams ==
    [colnames : {<<"A">>, <<"A", "B">>}, format : Formats, error_means_null : BOOLEAN,
     unit : Unit, search_in_text : BOOLEAN]

StoredParams == {[key \in keys |-> full[key]] : full \in FullParams, keys \in SUBSET ParamKeys}

InitMigrate ==
    /\ stored \in StoredParams
    /\ previous = <<>>
    /\ migrated = stored
    /\ calls = 0
    /\ mpc = "ready"
    /\ IdleCodec
    /\ IdleRender

NextMigrate ==
    \/ MigrateParams
    \/ MigrateParamsRaise

SpecMigrate == InitMigrate /\ [][NextMigrate]_vars

-----------------------------------------------------------------------------
(* The proleptic Gregorian calendar, stated without the codec              *)

IsLeapYear(y) == (y % 4 = 0 /\ y % 100 # 0) \/ y % 400 = 0

DaysInMonth(y, m) ==
    IF m = 2 THEN (IF IsLeapYear(y) THEN 29 ELSE 28)
    ELSE IF m \in {4, 6, 9, 11} THEN 30
    ELSE 31

IsRealDate(y, m, d) == m \in 1..12 /\ d >= 1 /\ d <= DaysInMonth(y, m)

\* Leap years among the years 0 .. y-1.
LeapYearsBefore(y) == ((y - 1) \div 4) - ((y - 1) \div 100) + ((y - 1) \div 400) + 1

RECURSIVE DaysBeforeMonth(_, _)
DaysBeforeMonth(y, m) ==
    IF m <= 1 THEN 0 ELSE DaysBeforeMonth(y, m - 1) + DaysInMonth(y, m - 1)

\* Days from 1970-01-01 to the real date (y, m, d), y >= 0, counted on the
\* calendar; 719528 days lie between 0000-01-01 and 1970-01-01.
CivilDayCount(y, m, d) ==
    365 * y + LeapYearsBefore(y) + DaysBeforeMonth(y, m) + (d - 1) - 719528

QuarterStart(m) == ((m - 1) \div 3) * 3 + 1

CodecChecked == cpc \in {"validated", "truncated"}

\* The triple passed _validate_date32s: its date was not made null.
CodecAccepted == CodecChecked /\ ~IsNull(checked.date32s[1])

-----------------------------------------------------------------------------
(* Claims on the codec run                                                 *)

\* C1: for every parsed triple with y in 1..9999, the round trip through
\* the day-count reproduces the triple, and so validation accepts it, if
\* and only if the triple is a real proleptic-Gregorian date.
C1_RoundTripValidity ==
    (CodecChecked /\ ymd.y \in 1..9999) =>
        (CodecAccepted <=> IsRealDate(ymd.y, ymd.m, ymd.d))

\* C8: for every validated date with day-count n, negative counts included,
\* unit week returns the Monday w on or before it: w <= n < w + 7 and
\* (w + 3) mod 7 = 0; a Monday is returned unchanged.
C8_WeekIsMondayOnOrBefore ==
    (cpc = "truncated" /\ cunit = "week" /\ CodecAccepted) =>
        LET n == Val(checked.date32s[1])
            w == Val(trunc[1])
        IN  /\ w <= n
            /\ n < w + 7
            /\ (w + 3) % 7 = 0
            /\ ((n + 3) % 7 = 0 => w = n)

\* C8 witness: a validated date before 1970-01-01 that is not a Monday has
\* been truncated to an earlier day.
C8_Witness ==
    /\ cpc = "truncated"
    /\ cunit = "week"
    /\ CodecAccepted
    /\ Val(checked.date32s[1]) < -3
    /\ Val(trunc[1]) < Val(checked.date32s[1])

\* C9: for every date (y, m, d) accepted by validation, whatever its year,
\* unit month returns the day-count of (y, m, 1), unit quarter that of the
\* first day of the quarter, unit year that of (y, 1, 1); the result is a
\* valid date on or before the input date.
C9_MonthQuarterYearStart ==
    (cpc = "truncated" /\ CodecAccepted /\ cunit \in {"month", "quarter", "year"}) =>
        LET tm == IF cunit = "month" THEN ymd.m
                  ELSE IF cunit = "quarter" THEN QuarterStart(ymd.m)
                  ELSE 1
            t == Val(trunc[1])
        IN  /\ ~IsNull(trunc[1])
            /\ t = CivilDayCount(ymd.y, tm, 1)
            /\ t <= Val(checked.date32s[1])
            /\ Val(Valid(<<Some(ymd.y)>>, <<Some(tm)>>, <<Some(1)>>, trunc)[1])

-----------------------------------------------------------------------------
(* Columns read position by position, and values converted alone           *)

Done == pc = "done"

Failed == Done /\ Len(result.errors) = 1

Succeeded == Done /\ result.errors = <<>>

Min(S) == CHOOSE x \in S : \A y \in S : x <= y

\* The cells of a chunk of text, a dictionary array read through its
\* indices.
Expand(array) ==
    IF IsDictionary(array)
    THEN [i \in 1..Len(array.indices) |->
             IF IsNull(array.indices[i]) THEN Null
             ELSE array.dictionary[Val(array.indices[i]) + 1]]
    ELSE array.strings

RECURSIVE Cells(_)
Cells(chunks) == IF Len(chunks) = 0 THEN <<>> ELSE Expand(chunks[1]) \o Cells(Tail(chunks))

RECURSIVE Dates(_)
Dates(chunks) == IF Len(chunks) = 0 THEN <<>> ELSE chunks[1].dates \o Dates(Tail(chunks))

Rows(column) ==
    IF column.type = "date32" THEN Len(Dates(column.chunks)) ELSE Len(Cells(column.chunks))

\* The one column of a one-column run, position by position, and its
\* converted column.
Source == Cells(input[1].chunks)

Output == Dates(result.table[1].chunks)

\* The conversion of one value alone, errors reported.
Alone(cell) ==
    convert_array("A", StringChunk(<<cell>>), params.unit, Pattern, params.format, FALSE)

\* The value is not null and its conversion alone raises: it does not match
\* the format, or it matches and fails the round-trip validation.
Offends(cell) == Alone(cell).raised

Mismatching(cell) == Offends(cell) /\ Alone(cell).error.id = "error.formatMismatch"

Invalid(cell) == Offends(cell) /\ Alone(cell).error.id = "error.invalidDate"

\* The kind of a text read on the calendar: it does not match the format,
\* or it matches and is no real date, or ("") it is a real date.
TextYear(st) ==
    IF HasYY(Pattern)
    THEN (IF DigitsToInt(st.yy) <= 69 THEN DigitsToInt(st.yy) + 2000 ELSE DigitsToInt(st.yy) + 1900)
    ELSE DigitsToInt(st.yyyy)

TextKind(text) ==
    LET st == ExtractRegex(text, Pattern)
    IN  IF IsNull(st) THEN "error.formatMismatch"
        ELSE IF IsRealDate(TextYear(Val(st)), DigitsToInt(Val(st).mm), DigitsToInt(Val(st).dd))
        THEN ""
        ELSE "error.invalidDate"

CellKind(cell) == IF IsNull(cell) THEN "" ELSE TextKind(Val(cell))

\* The chunks of the one column that hold an offending value.
OffendingChunks ==
    {c \in 1..Len(input[1].chunks) :
        \E i \in 1..Len(ParsedStrings(input[1].chunks[c])) :
            Offends(ParsedStrings(input[1].chunks[c])[i])}

\* The one column converted as one plain chunk.
Plain ==
    convert_array("A", StringChunk(Source), params.unit, Pattern, params.format, params.error_means_null)

-----------------------------------------------------------------------------
(* Claims on the one-column runs                                           *)

\* C2 as stated: when error_means_null is false and a plain string column
\* holds offending values of any kinds in any order, the error names the
\* offending value of lowest position in the column and has its kind.
C2_ErrorFirstReporting ==
    (/\ Done
     /\ ~params.error_means_null
     /\ input[1].type = "utf8"
     /\ \E i \in 1..Len(Source) : CellKind(Source[i]) # "") =>
        LET first == Min({i \in 1..Len(Source) : CellKind(Source[i]) # ""})
        IN  /\ Failed
            /\ result.errors[1].value = Source[first]
            /\ result.errors[1].id = CellKind(Source[first])

\* C2 amended: when error_means_null is false, a plain string column fails
\* exactly when it holds an offending value, and the error comes from the
\* first chunk that holds one: the format mismatch of lowest position in
\* that chunk if the chunk holds a mismatch, else the value of lowest
\* position in that chunk that fails the round-trip validation.
C2_MismatchBeforeInvalidDate ==
    (Done /\ ~params.error_means_null /\ input[1].type = "utf8") =>
        IF OffendingChunks = {} THEN Succeeded
        ELSE LET strings == input[1].chunks[Min(OffendingChunks)].strings
                 mismatching == {i \in 1..Len(strings) : Mismatching(strings[i])}
                 invalid == {i \in 1..Len(strings) : Invalid(strings[i])}
             IN  /\ Failed
                 /\ result.errors[1] =
                        IF mismatching # {}
                        THEN FormatMismatchError("A", strings[Min(mismatching)], params.format)
                        ELSE InvalidDateError("A", strings[Min(invalid)])

\* C2 witness: a one-chunk column whose first value matches the format
\* and is no date and whose second value does not match the format has
\* failed with the error of the second value.
C2_Witness ==
    /\ Failed
    /\ input[1].type = "utf8"
    /\ Len(input[1].chunks) = 1
    /\ Len(Source) = 2
    /\ Invalid(Source[1])
    /\ Mismatching(Source[2])
    /\ result.errors[1].value = Source[2]

\* C3 as stated: however a plain string column is split into chunks, the
\* outcome is that of the column converted as one chunk: the same values
\* on success, the same error on failure.
C3_ChunkInvariance ==
    (Done /\ input[1].type = "utf8") =>
        IF Plain.raised THEN result.errors = <<Plain.error>>
        ELSE Succeeded /\ Output = Plain.dates

\* C3 amended: however a plain string column is split into chunks, the
\* conversion fails exactly when the conversion as one chunk fails and
\* gives the same values when it succeeds; the error is the one the first
\* chunk holding an offending value gives alone, which is the error of the
\* conversion as one chunk whenever the column's offending values are all
\* format mismatches or all invalid dates.
C3_ChunkInvarianceOfValues ==
    (Done /\ input[1].type = "utf8") =>
        /\ Failed <=> Plain.raised
        /\ Succeeded => Output = Plain.dates
        /\ Failed =>
               result.errors[1] =
                   convert_array("A", input[1].chunks[Min(OffendingChunks)], params.unit,
                                 Pattern, params.format, params.error_means_null).error
        /\ (Failed /\ (\/ \A i \in 1..Len(Source) : ~Invalid(Source[i])
                       \/ \A i \in 1..Len(Source) : ~Mismatching(Source[i]))) =>
               result.errors = <<Plain.error>>

\* C3 witness: a column of two non-empty chunks has been converted to two
\* different dates.
C3_Witness ==
    /\ Succeeded
    /\ input[1].type = "utf8"
    /\ Len(input[1].chunks) = 2
    /\ Len(input[1].chunks[1].strings) = 1
    /\ Len(input[1].chunks[2].strings) = 1
    /\ ~IsNull(Output[1])
    /\ ~IsNull(Output[2])
    /\ Output[1] # Output[2]

\* C4 as stated: under both error policies a dictionary-encoded column,
\* whatever the order of its dictionary and whether or not every entry is
\* referenced, has the outcome of its expanded plain string column: the
\* same values, and failure with the same error exactly when the expanded
\* column fails.
C4_DictionaryInvariance ==
    (Done /\ input[1].type = "dictionary") =>
        IF Plain.raised THEN result.errors = <<Plain.error>>
        ELSE Succeeded /\ Output = Plain.dates

\* C6: when error_means_null is true the render of a text column returns
\* no error and a column of the same length; a position is null exactly
\* when its source value is null, does not match the format or fails
\* validation, and every other position holds the truncated date its own
\* value gives alone.
C6_ConvertToNull ==
    (Done /\ params.error_means_null /\ input[1].type # "date32") =>
        /\ Succeeded
        /\ Len(Output) = Len(Source)
        /\ \A i \in 1..Len(Source) :
               /\ IsNull(Output[i]) <=> (IsNull(Source[i]) \/ Mismatching(Source[i]) \/ Invalid(Source[i]))
               /\ ~IsNull(Output[i]) => Output[i] = Alone(Source[i]).dates[1]

\* C6 witness: a column holding an invalid date and then a real date has
\* been converted to a null and then a date.
C6_Witness ==
    /\ Succeeded
    /\ params.error_means_null
    /\ input[1].type # "date32"
    /\ Len(Source) = 2
    /\ Invalid(Source[1])
    /\ IsNull(Output[1])
    /\ ~IsNull(Output[2])

\* C7: in every text column a null position is null in the output whenever
\* the conversion succeeds, and never causes an error: an error reports a
\* non-null value of the array that was parsed, and a column whose
\* non-null values all convert alone does not fail.
C7_NullPreservation ==
    (Done /\ input[1].type # "date32") =>
        /\ Succeeded =>
               /\ Len(Output) = Len(Source)
               /\ \A i \in 1..Len(Source) : IsNull(Source[i]) => IsNull(Output[i])
        /\ Failed =>
               /\ ~IsNull(result.errors[1].value)
               /\ \E c \in 1..Len(input[1].chunks) :
                      \E i \in 1..Len(ParsedStrings(input[1].chunks[c])) :
                          ParsedStrings(input[1].chunks[c])[i] = result.errors[1].value
        /\ OffendingChunks = {} => Succeeded

\* C7 witness: with errors reported, a column holding a null and a real
\* date has been converted to a null and a date.
C7_Witness ==
    /\ Succeeded
    /\ ~params.error_means_null
    /\ input[1].type # "date32"
    /\ \E i \in 1..Len(Source) : IsNull(Source[i]) /\ IsNull(Output[i])
    /\ \E i \in 1..Len(Source) : ~IsNull(Source[i]) /\ ~IsNull(Output[i])

-----------------------------------------------------------------------------
(* Claims on the table runs                                                *)

IsNamed(name) == \E n \in 1..Len(params.colnames) : params.colnames[n] = name

\* The column holds, at some position, a value that is not a real date in
\* the format.
HasOffence(column) ==
    /\ column.type # "date32"
    /\ \E i \in 1..Rows(column) : CellKind(Cells(column.chunks)[i]) # ""

\* C5: if error_means_null is false and a requested text column holds an
\* offending value, the result is an empty table and exactly one error,
\* the error of the first column in colnames order that holds an offending
\* value; no partly converted table is ever returned.
C5_AllOrNothing ==
    /\ Done => (result.errors = <<>> \/ result.table = <<>>)
    /\ (/\ Done
        /\ ~params.error_means_null
        /\ \E n \in 1..Len(params.colnames) :
               HasOffence(input[get_field_index(input, params.colnames[n])])) =>
           LET first == Min({n \in 1..Len(params.colnames) :
                                HasOffence(input[get_field_index(input, params.colnames[n])])})
           IN  /\ result.table = <<>>
               /\ Len(result.errors) = 1
               /\ result.errors[1].column = params.colnames[first]

\* C10: a successful render returns the same column names in the same
\* order and the same number of rows; a column that is not named, or is
\* named and already a date column, is identical to the input, unit
\* metadata included; with empty colnames the table is the input table;
\* and an error never comes from a column that is not named or is already
\* a date column.
C10_Frame ==
    /\ Succeeded =>
           /\ Len(result.table) = Len(input)
           /\ \A i \in 1..Len(input) :
                  /\ result.table[i].name = input[i].name
                  /\ Rows(result.table[i]) = Rows(input[i])
                  /\ (~IsNamed(input[i].name) \/ input[i].type = "date32") =>
                         result.table[i] = input[i]
           /\ params.colnames = <<>> => result.table = input
    /\ Failed =>
           \E i \in 1..Len(input) :
               /\ input[i].name = result.errors[1].column
               /\ IsNamed(input[i].name)
               /\ input[i].type # "date32"

\* C10 witness: a render has succeeded on a table of two named columns of
\* one row, a date column tagged with another unit than the parameter and
\* a text column that has been converted.
C10_Witness ==
    /\ Succeeded
    /\ Len(input) = 2
    /\ Len(params.colnames) = 2
    /\ Rows(input[1]) = 1
    /\ \E i \in 1..2 : input[i].type = "date32" /\ input[i].unit # params.unit
    /\ \E i \in 1..2 : input[i].type # "date32" /\ result.table[i].type = "date32"

-----------------------------------------------------------------------------
\* Years outside the supported range.

\* The run ended with an exception that render_arrow_v1 does not catch.
Fatal == pc = "raised"

\* The digits of the year group of a text that matches the format.
YearDigits(text) ==
    IF HasYY(Pattern) THEN Val(ExtractRegex(text, Pattern)).yy
    ELSE Val(ExtractRegex(text, Pattern)).yyyy

\* The largest century c whose product 146097 * c fits 32 bits.
MaxCentury == MaxInt32 \div 146097

\* The value matches the format and its year is outside the supported
\* range: the year text does not fit a signed 32-bit integer, or the
\* product 146097 * c of the day-count formula exceeds 32 bits (the texts
\* of the overflow runs are dates of June, whose century is year \div 100).
YearOutOfRange(cell) ==
    /\ ~IsNull(cell)
    /\ ~IsNull(ExtractRegex(Val(cell), Pattern))
    /\ \/ ~FitsInt32(YearDigits(Val(cell)))
       \/ DigitsToInt(YearDigits(Val(cell))) \div 100 > MaxCentury

\* A one-column run whose column holds a year out of range and otherwise
\* only nulls and values that convert.
OnlyYearsOutOfRange ==
    /\ input[1].type = "utf8"
    /\ \E i \in 1..Len(Source) : YearOutOfRange(Source[i])
    /\ \A i \in 1..Len(Source) : YearOutOfRange(Source[i]) \/ ~Offends(Source[i])

\* C11: when a column holds a value that matches the format with a year
\* out of range (its text does not fit 32 bits, or the day-count arithmetic
\* on it exceeds 32 bits) and no other offending value, the render ends
\* with a fatal error under both error policies: it returns neither a table
\* (a null or a wrapped day-count at the position) nor an error of another
\* kind (formatMismatch, invalidDate).
C11_OverflowAlwaysFatal ==
    (pc \in {"done", "raised"} /\ OnlyYearsOutOfRange) => Fatal

\* The part of C11 the code keeps: a year text that does not fit 32 bits
\* ends the render with an uncaught exception under both policies.
C11_UnfitYearTextFatal ==
    (/\ pc \in {"done", "raised"}
     /\ OnlyYearsOutOfRange
     /\ \E i \in 1..Len(Source) :
            YearOutOfRange(Source[i]) /\ ~FitsInt32(YearDigits(Val(Source[i]))))
        => Fatal

-----------------------------------------------------------------------------
\* The two-digit year pivot.

\* The expected parts of a text that matches the format: the year widened
\* at the pivot (yy formats) or as written (yyyy formats), month and day.
ExpectedYear(text) == TextYear(Val(ExtractRegex(text, Pattern)))

ExpectedMonth(text) == DigitsToInt(Val(ExtractRegex(text, Pattern)).mm)

ExpectedDay(text) == DigitsToInt(Val(ExtractRegex(text, Pattern)).dd)

IsExpectedDate(text) == IsRealDate(ExpectedYear(text), ExpectedMonth(text), ExpectedDay(text))

\* C12: for formats M/D/YY and D/M/YY every matched year yy in 0..99 is
\* widened to yy + 2000 when yy <= 69 and to yy + 1900 when yy >= 70, and
\* formats with a yyyy group use the year as written.  The widened year is
\* the one the chunk is encoded, validated and truncated with: after the
\* parse the years array holds it, and with unit day a converted value
\* is the day-count of its date in the widened year, while a value that is
\* no real date in the widened year (29 February) is not converted.
C12_TwoDigitYearPivot ==
    /\ (pc = "loop" /\ Converting /\ conv.stage = "encode")
           => \A i \in 1..Len(conv.years) :
                  ~IsNull(conv.years[i])
                      => conv.years[i] = Some(ExpectedYear(Val(CurrentStrings[i])))
    /\ (Succeeded /\ input[1].type = "utf8" /\ params.unit = "day")
           => \A i \in 1..Len(Source) :
                  ~IsNull(ExtractRegex(Val(Source[i]), Pattern))
                      => /\ ~IsExpectedDate(Val(Source[i])) => IsNull(Output[i])
                         /\ ~IsNull(Output[i])
                                => Output[i] = Some(CivilDayCount(ExpectedYear(Val(Source[i])),
                                                                  ExpectedMonth(Val(Source[i])),
                                                                  ExpectedDay(Val(Source[i]))))

\* A column of 15 June 69 and 15 June 70 in a yy format converts to
\* 2069-06-15 and 1970-06-15.
C12_Witness ==
    /\ Succeeded
    /\ input[1].type = "utf8"
    /\ HasYY(Pattern)
    /\ params.unit = "day"
    /\ Source = AtPivot(params.format)
    /\ Output = <<Some(CivilDayCount(2069, 6, 15)), Some(CivilDayCount(1970, 6, 15))>>

-----------------------------------------------------------------------------
\* Parameter migration.

\* A legacy parameter set: no 'format', and the three parameters of v0
\* ('search_in_text' may be there or not).
IsLegacy(p) ==
    /\ "format" \notin DOMAIN p
    /\ {"colnames", "error_means_null", "unit"} \subseteq DOMAIN p

\* C13: for every legacy parameter set without 'format' (with or without
\* 'search_in_text', whatever its value) migrate_params returns exactly the
\* keys colnames, format, error_means_null and unit, with format =
\* "YYYY-MM-DD" and the other three values carried over; a parameter set
\* that has 'format' is returned unchanged; migrating the result again
\* changes nothing; a call raises only when the parameter set is no legacy
\* set and has no 'format'.
C13_MigrateParams ==
    /\ (mpc = "ready" /\ calls >= 1 /\ IsLegacy(stored))
           => /\ DOMAIN migrated = {"colnames", "format", "error_means_null", "unit"}
              /\ migrated["format"] = "YYYY-MM-DD"
              /\ migrated["colnames"] = stored["colnames"]
              /\ migrated["error_means_null"] = stored["error_means_null"]
              /\ migrated["unit"] = stored["unit"]
    /\ (mpc = "ready" /\ calls >= 1 /\ "format" \in DOMAIN stored) => migrated = stored
    /\ (mpc = "ready" /\ calls >= 2) => migrated = previous
    /\ mpc = "raised" => ("format" \notin DOMAIN stored /\ ~IsLegacy(stored))

\* A legacy parameter set with search_in_text = TRUE was migrated twice.
C13_Witness ==
    /\ mpc = "ready"
    /\ calls = 2
    /\ IsLegacy(stored)
    /\ "search_in_text" \in DOMAIN stored
    /\ stored["search_in_text"]
    /\ "search_in_text" \notin DOMAIN migrated
    /\ migrated["format"] = "YYYY-MM-DD"

=============================================================================

